---- MODULE Spec2Model ----
(***************************************************************************)
(* Model of src/main.py: the /recommend-trip endpoint (recommend_trip)     *)
(* and the scoring function get_score.                                     *)
(*                                                                         *)
(* Numbers.  Python floats are modelled as exact fixed-point integers:     *)
(* weather readings (temperature, wind, rain) are in tenths (25.0 is 250,  *)
(* 7.6 is 76) and a score is in twentieths of a point (100 is 2000), the   *)
(* finest unit the three coefficients 2.0, 0.5 and 4.0 produce from a      *)
(* reading in tenths.  Binary rounding of floats is not modelled.          *)
(*                                                                         *)
(* Text.  A Python str on which the code calls upper(), lower() or `in`    *)
(* is a sequence of one-character strings; other text is a TLA+ string.    *)
(* An Optional value is <<>> (None) or <<v>>.  A dict is a record whose    *)
(* DOMAIN is the set of keys present.                                      *)
(***************************************************************************)
EXTENDS Integers, Sequences, FiniteSets, TLC

\* ------------------------------------------------------------------------
\* Bounds of the model
\* ------------------------------------------------------------------------

\* longest candidate list the geocoding provider returns in the model
MaxCandidates == 2

\* readings within Delta tenths of every threshold are scored
Delta == 1

\* ------------------------------------------------------------------------
\* Python built-ins used by the code
\* ------------------------------------------------------------------------

None == << >>

Some(v) == << v >>

LowerLetters ==
  << "a","b","c","d","e","f","g","h","i","j","k","l","m",
     "n","o","p","q","r","s","t","u","v","w","x","y","z" >>

UpperLetters ==
  << "A","B","C","D","E","F","G","H","I","J","K","L","M",
     "N","O","P","Q","R","S","T","U","V","W","X","Y","Z" >>

\* str.upper() on one character
upper_char(c) ==
  IF \E i \in 1..26 : LowerLetters[i] = c
  THEN UpperLetters[CHOOSE i \in 1..26 : LowerLetters[i] = c]
  ELSE c

\* str.lower() on one character
lower_char(c) ==
  IF \E i \in 1..26 : UpperLetters[i] = c
  THEN LowerLetters[CHOOSE i \in 1..26 : UpperLetters[i] = c]
  ELSE c

\* a faulty upper() that leaves the text as it is (case-sensitive matching)
upper_identity(s) == s

\* str.upper()
upper(s) == [i \in 1..Len(s) |-> upper_char(s[i])]

\* str.lower()
lower(s) == [i \in 1..Len(s) |-> lower_char(s[i])]

\* Python `sub in s` on two strings: sub occurs in s as a contiguous run
contains(sub, s) ==
  \E k \in 0..(Len(s) - Len(sub)) : \A i \in 1..Len(sub) : s[k + i] = sub[i]

\* dict.get(k, default)
Get(d, k, default) == IF k \in DOMAIN d THEN d[k] ELSE default

\* abs()
abs(x) == IF x < 0 THEN -x ELSE x

\* max()
max(a, b) == IF b > a THEN b ELSE a

\* ------------------------------------------------------------------------
\* get_score
\* ------------------------------------------------------------------------

\* one score point, in twentieths
ScoreUnit == 20

\* one unit of a reading (degree, km/h, mm), in tenths
ReadingUnit == 10

\* a faulty temperature deduction: one point per degree instead of two
temp_deduction_single(temp) ==
  (abs(temp - 25 * ReadingUnit) * 10 * ScoreUnit) \div (10 * ReadingUnit)

\* score -= diff * 2.0 with diff = abs(temp - ideal_temp), ideal_temp = 25
temp_deduction(temp) ==
  (abs(temp - 25 * ReadingUnit) * 20 * ScoreUnit) \div (10 * ReadingUnit)

\* a faulty wind deduction that forgets abs()
wind_deduction_signed(wind) ==
  ((wind - 0) * 5 * ScoreUnit) \div (10 * ReadingUnit)

\* score -= diff * 0.5 with diff = abs(wind - ideal_wind), ideal_wind = 0
wind_deduction(wind) ==
  (abs(wind - 0) * 5 * ScoreUnit) \div (10 * ReadingUnit)

\* score -= diff * 4.0 with diff = abs(rain - ideal_rain), ideal_rain = 0
rain_deduction(rain) ==
  (abs(rain - 0) * 40 * ScoreUnit) \div (10 * ReadingUnit)

\* the if/elif chain of the temperature logic
temp_verdict(temp) ==
  IF temp < -5 * ReadingUnit THEN "Dangerously Cold"
  ELSE IF temp < 0 THEN "Freezing"
  ELSE IF temp < 5 * ReadingUnit THEN "Very Cold"
  ELSE IF temp < 10 * ReadingUnit THEN "Cold"
  ELSE IF temp < 16 * ReadingUnit THEN "Chilly"
  ELSE IF temp < 26 * ReadingUnit THEN "Perfect"
  ELSE IF temp < 30 * ReadingUnit THEN "Warm"
  ELSE IF temp < 35 * ReadingUnit THEN "Hot"
  ELSE IF temp < 40 * ReadingUnit THEN "Very Hot"
  ELSE "Dangerously Hot"

\* the if/elif chain of the wind logic
wind_verdict(wind) ==
  IF wind < 5 * ReadingUnit THEN " & Calm Winds"
  ELSE IF wind < 12 * ReadingUnit THEN " & Light Breeze"
  ELSE IF wind < 20 * ReadingUnit THEN " & Breezy"
  ELSE IF wind < 30 * ReadingUnit THEN " & Windy"
  ELSE IF wind < 50 * ReadingUnit THEN " & Strong Winds"
  ELSE IF wind < 75 * ReadingUnit THEN " & Gale Force"
  ELSE " & Violent Storm"

\* a faulty rain chain whose first test is rain <= 0
rain_verdict_nonpositive(rain) ==
  IF rain <= 0 THEN " & Dry Conditions"
  ELSE IF rain < 5 THEN " & Drizzling"
  ELSE IF rain < 25 THEN " & Light Rain"
  ELSE IF rain < 76 THEN " & Moderate Rain"
  ELSE IF rain < 10 * ReadingUnit THEN " & Heavy Rain"
  ELSE IF rain < 50 * ReadingUnit THEN " & Potential Floods"
  ELSE " & Torrential/Flash Flooding"

\* the if/elif chain of the rain logic (0.5, 2.5 and 7.6 are 5, 25 and 76 tenths)
rain_verdict(rain) ==
  IF rain = 0 THEN " & Dry Conditions"
  ELSE IF rain < 5 THEN " & Drizzling"
  ELSE IF rain < 25 THEN " & Light Rain"
  ELSE IF rain < 76 THEN " & Moderate Rain"
  ELSE IF rain < 10 * ReadingUnit THEN " & Heavy Rain"
  ELSE IF rain < 50 * ReadingUnit THEN " & Potential Floods"
  ELSE " & Torrential/Flash Flooding"

\* get_score(temp, wind, rain): the dict it returns
get_score(temp, wind, rain) ==
  LET score == 100 * ScoreUnit
               - temp_deduction(temp) - wind_deduction(wind) - rain_deduction(rain)
      score_verdict == (temp_verdict(temp) \o wind_verdict(wind)) \o rain_verdict(rain)
  IN  [score |-> max(0, score), score_verdict |-> score_verdict]

\* a faulty condition test: any nonzero rain counts as raining
condition_nonzero(rain) == IF rain # 0 THEN "Raining" ELSE "Clear"

\* "Raining" if rain > 0 else "Clear"
condition(rain) == IF rain > 0 THEN "Raining" ELSE "Clear"

\* ------------------------------------------------------------------------
\* Inputs: the query, the geocoding provider's answers, the weather
\* provider's answers, the readings handed to get_score
\* ------------------------------------------------------------------------

US == << "U", "S" >>

us == << "u", "s" >>

GB == << "G", "B" >>

RhodeIsland == << "R","h","o","d","e"," ","I","s","l","a","n","d" >>

NewYork == << "N","e","w"," ","Y","o","r","k" >>

England == << "E","n","g","l","a","n","d" >>

\* country_code: a two-letter code, in either case
CountryCodes == { US, us, GB }

\* city
Cities == { "Warwick" }

\* state: absent, empty, "rhode", "YORK", "Texas"
States ==
  { None,
    Some(<< >>),
    Some(<< "r","h","o","d","e" >>),
    Some(<< "Y","O","R","K" >>),
    Some(<< "T","e","x","a","s" >>) }

\* candidates the geocoding provider can return; country, country_code and
\* admin1 are optional keys of a candidate
CandidatePool ==
  { [name |-> "Warwick", latitude |-> 417, longitude |-> -714,
     country |-> "United States", country_code |-> US, admin1 |-> RhodeIsland],
    [name |-> "Warwick", latitude |-> 412, longitude |-> -743,
     country |-> "United States", country_code |-> US, admin1 |-> NewYork],
    [name |-> "Warwick", latitude |-> 522, longitude |-> -15,
     country |-> "United Kingdom", country_code |-> GB, admin1 |-> England],
    [name |-> "Warwick Township", latitude |-> 402, longitude |-> -763,
     country_code |-> us],
    [name |-> "Warwick Seamount", latitude |-> 480, longitude |-> -1328] }

\* candidate lists of at most MaxCandidates entries, in provider order
CandidateLists ==
  UNION { [1..n -> CandidatePool] : n \in 0..MaxCandidates }

\* bodies of a decodable geocoding answer: without "results", or with a list
GeoBodies ==
  { [generationtime_ms |-> 1] }
    \cup { [generationtime_ms |-> 1, results |-> l] : l \in CandidateLists }

\* temperature_2m readings of the weather provider, in tenths
TempSamples == { 143, 250 }

\* wind_speed_10m readings, in tenths
WindSamples == { -20, 31 }

\* rain readings, in tenths
RainSamples == { -10, 0, 3 }

\* the "current" object: "time" is always there, each reading may be absent
CurrentObjects ==
  { [time |-> "t"] }
    \cup { [time |-> "t", temperature_2m |-> t] : t \in TempSamples }
    \cup { [time |-> "t", wind_speed_10m |-> w] : w \in WindSamples }
    \cup { [time |-> "t", rain |-> r] : r \in RainSamples }
    \cup { [time |-> "t", temperature_2m |-> t, wind_speed_10m |-> w] :
             t \in TempSamples, w \in WindSamples }
    \cup { [time |-> "t", temperature_2m |-> t, rain |-> r] :
             t \in TempSamples, r \in RainSamples }
    \cup { [time |-> "t", wind_speed_10m |-> w, rain |-> r] :
             w \in WindSamples, r \in RainSamples }
    \cup { [time |-> "t", temperature_2m |-> t, wind_speed_10m |-> w, rain |-> r] :
             t \in TempSamples, w \in WindSamples, r \in RainSamples }

\* bodies of a decodable weather answer: without "current", or with it
WeatherBodies ==
  { [elevation |-> 1] } \cup { [elevation |-> 1, current |-> c] : c \in CurrentObjects }

\* readings around every threshold of the temperature logic and the ideal 25
TempReadings ==
  { th * ReadingUnit + d :
      th \in { -5, 0, 5, 10, 16, 25, 26, 30, 35, 40 }, d \in -Delta..Delta }

\* readings around every threshold of the wind logic, 0 and a negative speed
WindReadings ==
  { th * ReadingUnit + d :
      th \in { -8, 0, 5, 12, 20, 30, 50, 75 }, d \in -Delta..Delta }

\* readings around every threshold of the rain logic and a negative amount
RainReadings ==
  { th + d : th \in { -20, 0, 5, 25, 76, 100, 500 }, d \in -Delta..Delta }

\* the empty dict {}
EmptyDict == [k \in {} |-> 0]

\* ------------------------------------------------------------------------
\* State
\* ------------------------------------------------------------------------

VARIABLES
  pc,                 \* position of the request in recommend_trip
  country_code,       \* query parameters
  city,
  state,
  geo_data,           \* decoded geocoding body
  candidates,
  idx,                \* position of the for loop in candidates
  selected_location,  \* None or Some(candidate)
  lat,
  lon,
  resolved_country,
  resolved_state,
  resolved_name,
  weather_data,       \* decoded weather body
  temp,
  rain,
  wind,
  analysis,           \* what get_score returned
  result,             \* the dict the handler returns
  status,             \* HTTP status of the answer, 0 while none is sent
  response,           \* body sent with a 200
  geo_outcome,        \* how the geocoding call ended
  weather_outcome,    \* how the weather call ended
  geo_calls,          \* number of geocoding calls issued
  weather_calls,      \* number of weather calls issued
  weather_params,     \* latitude/longitude sent with the weather call
  score_runs          \* number of get_score runs

vars ==
  << pc, country_code, city, state, geo_data, candidates, idx, selected_location,
     lat, lon, resolved_country, resolved_state, resolved_name, weather_data,
     temp, rain, wind, analysis, result, status, response, geo_outcome,
     weather_outcome, geo_calls, weather_calls, weather_params, score_runs >>

query_vars == << country_code, city, state >>

geo_vars == << geo_data, geo_outcome, geo_calls >>

loop_vars == << candidates, idx, selected_location >>

location_vars == << lat, lon, resolved_country, resolved_state, resolved_name >>

weather_vars == << weather_data, weather_outcome, weather_calls, weather_params >>

score_vars == << temp, rain, wind, analysis, score_runs >>

answer_vars == << result, status, response >>

\* no request received yet
Blank ==
  /\ country_code = << >> /\ city = "" /\ state = None
  /\ geo_data = EmptyDict /\ candidates = << >> /\ idx = 0
  /\ selected_location = None
  /\ lat = 0 /\ lon = 0
  /\ resolved_country = "" /\ resolved_state = << >> /\ resolved_name = ""
  /\ weather_data = EmptyDict
  /\ temp = 0 /\ rain = 0 /\ wind = 0
  /\ analysis = EmptyDict /\ result = EmptyDict
  /\ status = 0 /\ response = EmptyDict
  /\ geo_outcome = "none" /\ weather_outcome = "none"
  /\ geo_calls = 0 /\ weather_calls = 0 /\ weather_params = EmptyDict
  /\ score_runs = 0

Init == pc = "idle" /\ Blank

\* ------------------------------------------------------------------------
\* recommend_trip
\* ------------------------------------------------------------------------

\* the request arrives with its validated query parameters
Receive ==
  /\ pc = "idle"
  /\ \E cc \in CountryCodes, c \in Cities, st \in States :
       /\ country_code' = cc
       /\ city' = c
       /\ state' = st
  /\ pc' = "geocode"
  /\ UNCHANGED << geo_vars, loop_vars, location_vars, weather_vars, score_vars,
                  answer_vars >>

\* client.get raises httpx.RequestError: caught, HTTPException 503
GeocodeRequestError ==
  /\ pc = "geocode"
  /\ geo_calls' = geo_calls + 1
  /\ geo_outcome' = "transport"
  /\ status' = 503
  /\ pc' = "done"
  /\ UNCHANGED << query_vars, geo_data, loop_vars, location_vars, weather_vars,
                  score_vars, result, response >>

\* the provider answers non-2xx: raise_for_status raises httpx.HTTPStatusError,
\* which is no httpx.RequestError, so the except clause lets it through and
\* the framework answers 500
GeocodeStatusError ==
  /\ pc = "geocode"
  /\ geo_calls' = geo_calls + 1
  /\ geo_outcome' = "non2xx"
  /\ status' = 500
  /\ pc' = "done"
  /\ UNCHANGED << query_vars, geo_data, loop_vars, location_vars, weather_vars,
                  score_vars, result, response >>

\* a 2xx answer whose body is no JSON: json() raises a ValueError, uncaught
GeocodeDecodeError ==
  /\ pc = "geocode"
  /\ geo_calls' = geo_calls + 1
  /\ geo_outcome' = "undecodable"
  /\ status' = 500
  /\ pc' = "done"
  /\ UNCHANGED << query_vars, geo_data, loop_vars, location_vars, weather_vars,
                  score_vars, result, response >>

\* a 2xx answer with a JSON body
GeocodeOk ==
  /\ pc = "geocode"
  /\ geo_calls' = geo_calls + 1
  /\ geo_outcome' = "ok"
  /\ \E body \in GeoBodies : geo_data' = body
  /\ pc' = "check_results"
  /\ UNCHANGED << query_vars, loop_vars, location_vars, weather_vars, score_vars,
                  answer_vars >>

\* if not geo_data.get("results"): 404
NoResults ==
  /\ pc = "check_results"
  /\ Get(geo_data, "results", None) = << >>
  /\ status' = 404
  /\ pc' = "done"
  /\ UNCHANGED << query_vars, geo_vars, loop_vars, location_vars, weather_vars,
                  score_vars, result, response >>

\* selected_location = None; candidates = geo_data["results"]; enter the loop
StartLoop ==
  /\ pc = "check_results"
  /\ Get(geo_data, "results", None) # << >>
  /\ selected_location' = None
  /\ candidates' = geo_data["results"]
  /\ idx' = 1
  /\ pc' = "loop"
  /\ UNCHANGED << query_vars, geo_vars, location_vars, weather_vars, score_vars,
                  answer_vars >>

\* the country test of the loop body: true when the candidate is skipped
skips_country(candidate, cc) ==
  /\ cc # << >>
  /\ upper(Get(candidate, "country_code", << >>)) # upper(cc)

\* the state test of the loop body: true when the candidate is skipped
skips_state(candidate, st) ==
  /\ st # None
  /\ st[1] # << >>
  /\ ~ contains(lower(st[1]), lower(Get(candidate, "admin1", << >>)))

\* continue: the candidate's country code differs
LoopSkipCountry ==
  /\ pc = "loop"
  /\ idx <= Len(candidates)
  /\ skips_country(candidates[idx], country_code)
  /\ idx' = idx + 1
  /\ UNCHANGED << pc, query_vars, geo_vars, candidates, selected_location,
                  location_vars, weather_vars, score_vars, answer_vars >>

\* continue: the state is not in the candidate's admin1
LoopSkipState ==
  /\ pc = "loop"
  /\ idx <= Len(candidates)
  /\ ~ skips_country(candidates[idx], country_code)
  /\ skips_state(candidates[idx], state)
  /\ idx' = idx + 1
  /\ UNCHANGED << pc, query_vars, geo_vars, candidates, selected_location,
                  location_vars, weather_vars, score_vars, answer_vars >>

\* a faulty loop body that forgets the break: the last match wins
LoopSelect_no_break ==
  /\ pc = "loop"
  /\ idx <= Len(candidates)
  /\ ~ skips_country(candidates[idx], country_code)
  /\ ~ skips_state(candidates[idx], state)
  /\ selected_location' = Some(candidates[idx])
  /\ idx' = idx + 1
  /\ UNCHANGED << pc, query_vars, geo_vars, candidates, location_vars,
                  weather_vars, score_vars, answer_vars >>

\* selected_location = candidate; break
LoopSelect ==
  /\ pc = "loop"
  /\ idx <= Len(candidates)
  /\ ~ skips_country(candidates[idx], country_code)
  /\ ~ skips_state(candidates[idx], state)
  /\ selected_location' = Some(candidates[idx])
  /\ pc' = "after_loop"
  /\ UNCHANGED << query_vars, geo_vars, candidates, idx, location_vars,
                  weather_vars, score_vars, answer_vars >>

\* the for loop runs out of candidates
LoopExhausted ==
  /\ pc = "loop"
  /\ idx > Len(candidates)
  /\ pc' = "after_loop"
  /\ UNCHANGED << query_vars, geo_vars, loop_vars, location_vars, weather_vars,
                  score_vars, answer_vars >>

\* Python's `not selected_location`: None and the empty dict are falsy
not_selected(sel) == IF sel = None THEN TRUE ELSE DOMAIN sel[1] = {}

\* if not selected_location: 404
NotSelected ==
  /\ pc = "after_loop"
  /\ not_selected(selected_location)
  /\ status' = 404
  /\ pc' = "done"
  /\ UNCHANGED << query_vars, geo_vars, loop_vars, location_vars, weather_vars,
                  score_vars, result, response >>

Unknown == << "U","n","k","n","o","w","n" >>

\* lat, lon, resolved_country, resolved_state, resolved_name
ExtractLocation ==
  /\ pc = "after_loop"
  /\ ~ not_selected(selected_location)
  /\ lat' = selected_location[1]["latitude"]
  /\ lon' = selected_location[1]["longitude"]
  /\ resolved_country' = Get(selected_location[1], "country", "Unknown")
  /\ resolved_state' = Get(selected_location[1], "admin1", Unknown)
  /\ resolved_name' = selected_location[1]["name"]
  /\ pc' = "weather"
  /\ UNCHANGED << query_vars, geo_vars, loop_vars, weather_vars, score_vars,
                  answer_vars >>

\* the weather call is sent with latitude = lat and longitude = lon
weather_call ==
  /\ weather_calls' = weather_calls + 1
  /\ weather_params' = [latitude |-> lat, longitude |-> lon]

\* a faulty handler that tries the weather call again after a transport failure
WeatherRequestError_retry ==
  /\ pc = "weather"
  /\ weather_call
  /\ weather_outcome' = "transport"
  /\ UNCHANGED << pc, query_vars, geo_vars, loop_vars, location_vars, weather_data,
                  score_vars, answer_vars >>

\* client.get raises httpx.RequestError: caught, HTTPException 503
WeatherRequestError ==
  /\ pc = "weather"
  /\ weather_call
  /\ weather_outcome' = "transport"
  /\ status' = 503
  /\ pc' = "done"
  /\ UNCHANGED << query_vars, geo_vars, loop_vars, location_vars, weather_data,
                  score_vars, result, response >>

\* non-2xx: httpx.HTTPStatusError is not caught, the framework answers 500
WeatherStatusError ==
  /\ pc = "weather"
  /\ weather_call
  /\ weather_outcome' = "non2xx"
  /\ status' = 500
  /\ pc' = "done"
  /\ UNCHANGED << query_vars, geo_vars, loop_vars, location_vars, weather_data,
                  score_vars, result, response >>

\* a 2xx answer whose body is no JSON: json() raises a ValueError, uncaught
WeatherDecodeError ==
  /\ pc = "weather"
  /\ weather_call
  /\ weather_outcome' = "undecodable"
  /\ status' = 500
  /\ pc' = "done"
  /\ UNCHANGED << query_vars, geo_vars, loop_vars, location_vars, weather_data,
                  score_vars, result, response >>

\* a 2xx answer with a JSON body
WeatherOk ==
  /\ pc = "weather"
  /\ weather_call
  /\ weather_outcome' = "ok"
  /\ \E body \in WeatherBodies : weather_data' = body
  /\ pc' = "extract"
  /\ UNCHANGED << query_vars, geo_vars, loop_vars, location_vars, score_vars,
                  answer_vars >>

\* current, temp, rain, wind; analysis = get_score(temp, wind, rain)
RunAlgorithm ==
  /\ pc = "extract"
  /\ LET current == Get(weather_data, "current", EmptyDict)
         t == Get(current, "temperature_2m", 0)
         r == Get(current, "rain", 0)
         w == Get(current, "wind_speed_10m", 0)
     IN  /\ temp' = t
         /\ rain' = r
         /\ wind' = w
         /\ analysis' = get_score(t, w, r)
  /\ score_runs' = score_runs + 1
  /\ pc' = "return"
  /\ UNCHANGED << query_vars, geo_vars, loop_vars, location_vars, weather_vars,
                  answer_vars >>

\* the dict of the return statement
Return ==
  /\ pc = "return"
  /\ result' =
       [city |-> resolved_name,
        state |-> resolved_state,
        country |-> resolved_country,
        score |-> analysis["score"],
        score_verdict |-> analysis["score_verdict"],
        details |-> [temperature_c |-> temp,
                     condition |-> condition(rain),
                     wind_speed |-> wind]]
  /\ pc' = "serialize"
  /\ UNCHANGED << query_vars, geo_vars, loop_vars, location_vars, weather_vars,
                  score_vars, status, response >>

\* response_model=Recommendation, score: int.  The returned score is a float.
\* A whole-valued float is accepted as the int; a validator that casts with
\* int() also accepts a fractional one, truncated.
SerializeOk ==
  /\ pc = "serialize"
  /\ response' = [result EXCEPT !["score"] = result["score"] \div ScoreUnit]
  /\ status' = 200
  /\ pc' = "done"
  /\ UNCHANGED << query_vars, geo_vars, loop_vars, location_vars, weather_vars,
                  score_vars, result >>

\* response_model=Recommendation, score: int.  A validator that refuses a
\* float with a fractional part fails the response: the framework answers 500.
SerializeError ==
  /\ pc = "serialize"
  /\ result["score"] % ScoreUnit # 0
  /\ status' = 500
  /\ pc' = "done"
  /\ UNCHANGED << query_vars, geo_vars, loop_vars, location_vars, weather_vars,
                  score_vars, result, response >>

Next ==
  \/ Receive
  \/ GeocodeRequestError
  \/ GeocodeStatusError
  \/ GeocodeDecodeError
  \/ GeocodeOk
  \/ NoResults
  \/ StartLoop
  \/ LoopSkipCountry
  \/ LoopSkipState
  \/ LoopSelect
  \/ LoopExhausted
  \/ NotSelected
  \/ ExtractLocation
  \/ WeatherRequestError
  \/ WeatherStatusError
  \/ WeatherDecodeError
  \/ WeatherOk
  \/ RunAlgorithm
  \/ Return
  \/ SerializeOk
  \/ SerializeError

Spec == Init /\ [][Next]_vars

\* ------------------------------------------------------------------------
\* get_score on its own: the readings are drawn, then the function is applied
\* ------------------------------------------------------------------------

InitScore ==
  /\ pc = "score_input"
  /\ country_code = << >> /\ city = "" /\ state = None
  /\ geo_data = EmptyDict /\ candidates = << >> /\ idx = 0
  /\ selected_location = None
  /\ lat = 0 /\ lon = 0
  /\ resolved_country = "" /\ resolved_state = << >> /\ resolved_name = ""
  /\ weather_data = EmptyDict
  /\ temp \in TempReadings /\ rain \in RainReadings /\ wind \in WindReadings
  /\ analysis = EmptyDict /\ result = EmptyDict
  /\ status = 0 /\ response = EmptyDict
  /\ geo_outcome = "none" /\ weather_outcome = "none"
  /\ geo_calls = 0 /\ weather_calls = 0 /\ weather_params = EmptyDict
  /\ score_runs = 0

ApplyScore ==
  /\ pc = "score_input"
  /\ analysis' = get_score(temp, wind, rain)
  /\ score_runs' = score_runs + 1
  /\ pc' = "score_done"
  /\ UNCHANGED << query_vars, geo_vars, loop_vars, location_vars, weather_vars,
                  temp, rain, wind, answer_vars >>

NextScore == ApplyScore

ScoreSpec == InitScore /\ [][NextScore]_vars

\* ------------------------------------------------------------------------
\* Properties
\* ------------------------------------------------------------------------

\* an upstream call ended in a transport failure or a non-2xx answer
UpstreamFailed ==
  \/ geo_outcome \in { "transport", "non2xx" }
  \/ weather_outcome \in { "transport", "non2xx" }

\* C1: whenever the geocoding call or the weather call ends in a transport
\* failure or in a non-2xx answer, the request ends with HTTP 503 and with no
\* other status.
C1_UpstreamFailureIs503 ==
  (pc = "done" /\ UpstreamFailed) => status = 503

\* C2: for every (temp, wind, rain), negative wind and negative rain included,
\* the score get_score returns is at least 0 and at most 100.
C2_ScoreInRange ==
  pc = "score_done" =>
    /\ 0 <= analysis["score"]
    /\ analysis["score"] <= 100 * ScoreUnit

\* C2 happens: get_score has run on a negative wind and a negative rain
C2_NegativeReadingsScored ==
  /\ pc = "score_done"
  /\ wind < 0
  /\ rain < 0
  /\ analysis["score"] > 0

\* 10 * ReadingUnit times the unclamped score
\* 100 - 2.0*|temp-25| - 0.5*|wind| - 4.0*|rain|, in score units
ClosedForm(t, w, r) ==
  ScoreUnit * (100 * 10 * ReadingUnit
               - 20 * abs(t - 25 * ReadingUnit) - 5 * abs(w) - 40 * abs(r))

\* C3: get_score returns max(0, 100 - 2.0*|temp-25| - 0.5*|wind| - 4.0*|rain|),
\* and score(t, 0, 0) never increases as |t-25| grows.
C3_ScoreIsClosedForm ==
  pc = "score_done" =>
    /\ analysis["score"] * 10 * ReadingUnit = max(0, ClosedForm(temp, wind, rain))
    /\ \A t2 \in TempReadings :
         abs(t2 - 25 * ReadingUnit) >= abs(temp - 25 * ReadingUnit)
           => get_score(t2, 0, 0)["score"] <= get_score(temp, 0, 0)["score"]

\* C3 happens: all three deductions are nonzero and the floor is not hit
C3_AllDeductionsApplied ==
  /\ pc = "score_done"
  /\ temp # 25 * ReadingUnit
  /\ wind # 0
  /\ rain # 0
  /\ analysis["score"] > 0
  /\ analysis["score"] < 100 * ScoreUnit

\* the documented bands: << exclusive upper limit in tenths, label >>
TempBands ==
  << << -50, "Dangerously Cold" >>, << 0, "Freezing" >>, << 50, "Very Cold" >>,
     << 100, "Cold" >>, << 160, "Chilly" >>, << 260, "Perfect" >>,
     << 300, "Warm" >>, << 350, "Hot" >>, << 400, "Very Hot" >> >>

WindBands ==
  << << 50, "Calm Winds" >>, << 120, "Light Breeze" >>, << 200, "Breezy" >>,
     << 300, "Windy" >>, << 500, "Strong Winds" >>, << 750, "Gale Force" >> >>

RainBands ==
  << << 5, "Drizzling" >>, << 25, "Light Rain" >>, << 76, "Moderate Rain" >>,
     << 100, "Heavy Rain" >>, << 500, "Potential Floods" >> >>

\* the label of the first band whose limit exceeds x, or the last label
Tier(bands, last, x) ==
  LET below == { i \in 1..Len(bands) : x < bands[i][1] }
  IN  IF below = {} THEN last
      ELSE bands[CHOOSE i \in below : \A j \in below : i <= j][2]

\* the documented rain tier: exactly 0 is dry, then the bands
RainTier(r) ==
  IF r = 0 THEN "Dry Conditions" ELSE Tier(RainBands, "Torrential/Flash Flooding", r)

\* C4: the verdict is '<temperature tier> & <wind tier> & <rain tier>', each
\* tier chosen on its own by the documented bands; (25, 0, 0) gives
\* 'Perfect & Calm Winds & Dry Conditions'.
C4_VerdictFromBands ==
  pc = "score_done" =>
    /\ analysis["score_verdict"] =
         (((Tier(TempBands, "Dangerously Hot", temp) \o " & ")
           \o Tier(WindBands, "Violent Storm", wind)) \o " & ") \o RainTier(rain)
    /\ (temp = 250 /\ wind = 0 /\ rain = 0)
         => analysis["score_verdict"] = "Perfect & Calm Winds & Dry Conditions"

\* C4 happens: the documented example
C4_PerfectCalmDry ==
  /\ pc = "score_done"
  /\ temp = 250 /\ wind = 0 /\ rain = 0
  /\ analysis["score_verdict"] = "Perfect & Calm Winds & Dry Conditions"

\* s holds sub as a contiguous run
HasRun(sub, s) ==
  \E i \in 1..(Len(s) + 1), j \in 0..Len(s) : SubSeq(s, i, j) = sub

\* the candidate's country code equals country_code whatever the case and,
\* when a state is given, its lower-cased admin1 holds the lower-cased state
PassesBothFilters(c) ==
  /\ lower(Get(c, "country_code", << >>)) = lower(country_code)
  /\ state # None => HasRun(lower(state[1]), lower(Get(c, "admin1", << >>)))

\* C5: the selected location is the candidate with the smallest index, in
\* provider order, that passes both filters; no candidate before it passes
\* and no later candidate is ever preferred.
C5_FirstMatchWins ==
  selected_location # None =>
    /\ idx \in 1..Len(candidates)
    /\ selected_location[1] = candidates[idx]
    /\ PassesBothFilters(candidates[idx])
    /\ \A j \in 1..(idx - 1) : ~ PassesBothFilters(candidates[j])

\* C5 happens: with a state given, the first candidate was skipped, the second
\* selected, and the request went on to its end
C5_SecondCandidateSelected ==
  /\ pc = "done"
  /\ state # None
  /\ Len(candidates) = 2
  /\ PassesBothFilters(candidates[2])
  /\ selected_location = Some(candidates[2])
  /\ candidates[1] # candidates[2]

\* no candidate of the decoded geocoding body passes both filters
NonePasses ==
  LET cands == Get(geo_data, "results", << >>)
  IN  \A i \in 1..Len(cands) : ~ PassesBothFilters(cands[i])

\* C6: when the geocoding call succeeds, the request ends with 404 exactly
\* when the provider returned no candidate or no candidate passes both
\* filters; otherwise a location is selected.
C6_NotFoundIffNonePasses ==
  (pc = "done" /\ geo_outcome = "ok") =>
    /\ status = 404 <=> NonePasses
    /\ ~ NonePasses => selected_location # None

\* C6 happens: candidates were returned, none passed, the request ended 404
C6_AllFilteredOut ==
  /\ pc = "done"
  /\ geo_outcome = "ok"
  /\ Len(Get(geo_data, "results", << >>)) > 0
  /\ status = 404

\* the "current" object of the weather body, {} when it is absent
Current == Get(weather_data, "current", EmptyDict)

\* the weather body lacks a reading
LacksReading ==
  \/ "temperature_2m" \notin DOMAIN Current
  \/ "rain" \notin DOMAIN Current
  \/ "wind_speed_10m" \notin DOMAIN Current

\* C7: when the weather answer lacks a reading (or the whole "current"
\* object), the request does not fail: every missing value counts as 0, the
\* score and the verdict are those of get_score on the defaulted values, and
\* the answer is a 200 Recommendation.
C7_MissingReadingsStill200 ==
  (pc = "done" /\ weather_outcome = "ok" /\ LacksReading) =>
    LET t == Get(Current, "temperature_2m", 0)
        w == Get(Current, "wind_speed_10m", 0)
        r == Get(Current, "rain", 0)
    IN  /\ status = 200
        /\ response["score"] * ScoreUnit = get_score(t, w, r)["score"]
        /\ response["score_verdict"] = get_score(t, w, r)["score_verdict"]

\* C8: in every successful answer details.condition is "Raining" exactly when
\* the fetched rainfall is above 0, and "Clear" otherwise, rainfall 0 included.
C8_ConditionFollowsRain ==
  (pc = "done" /\ status = 200) =>
    response["details"]["condition"] =
      IF "rain" \in DOMAIN Current /\ Current["rain"] > 0 THEN "Raining" ELSE "Clear"

\* C8 happens: a successful answer for a fetched rainfall of exactly 0
C8_ClearAtZeroRain ==
  /\ pc = "done"
  /\ status = 200
  /\ "rain" \in DOMAIN Current
  /\ Current["rain"] = 0
  /\ response["details"]["condition"] = "Clear"

\* C9: the score get_score produces is an integer in 0..100 for every input,
\* also when a deduction such as 0.5*|wind| is not a whole number.
C9_ScoreIsInteger ==
  pc = "score_done" =>
    /\ analysis["score"] % ScoreUnit = 0
    /\ analysis["score"] \in 0..(100 * ScoreUnit)

\* C10: one request issues the geocoding call at most once and the weather
\* call at most once; the weather call comes only after a successful
\* geocoding call and a selection, with the selected candidate's coordinates;
\* after a failed geocoding call or a 404 there is no weather call and no
\* scoring.
C10_OneCallEachInOrder ==
  /\ geo_calls <= 1
  /\ weather_calls <= 1
  /\ weather_calls = 1 =>
       /\ geo_calls = 1
       /\ geo_outcome = "ok"
       /\ selected_location # None
       /\ weather_params = [latitude |-> selected_location[1]["latitude"],
                            longitude |-> selected_location[1]["longitude"]]
  /\ score_runs > 0 => (weather_calls = 1 /\ weather_outcome = "ok")
  /\ (geo_outcome \in { "transport", "non2xx", "undecodable" } \/ status = 404)
       => (weather_calls = 0 /\ score_runs = 0)

\* C10 happens: the weather call was issued with the coordinates of a
\* candidate that was not the first of the list
C10_WeatherCalledForSelection ==
  /\ weather_calls = 1
  /\ geo_calls = 1
  /\ idx = 2
  /\ weather_params["latitude"] = candidates[2]["latitude"]
  /\ candidates[1]["latitude"] # candidates[2]["latitude"]

====
